---- MODULE Spec2Model ----
(***************************************************************************)
(* Model of server-ba.js: an Express backend that brokers the PayPal       *)
(* billing-agreement flow (create-token, create-agreement, charge) through *)
(* the helpers getAccessToken and pp.  Every handler is split at its       *)
(* awaits: the step that receives the request and issues the OAuth fetch,  *)
(* the step in which the OAuth fetch settles and pp issues the API fetch,  *)
(* and the step in which the API fetch settles and the handler responds.   *)
(***************************************************************************)
EXTENDS Integers, Sequences, FiniteSets, TLC

\* Number of request slots the server handles (concurrently, under SpecConc).
NReq == 2

Reqs == 1..NReq

(***************************************************************************)
(* JavaScript values.                                                      *)
(***************************************************************************)
Undef == [t |-> "undefined"]

Null == [t |-> "null"]

Str(s) == [t |-> "string", s |-> s]

Num(n) == [t |-> "number", n |-> n]

Bool(b) == [t |-> "boolean", b |-> b]

Obj(f) == [t |-> "object", props |-> f]

Arr(q) == [t |-> "array", items |-> q]

\* {} : the object without properties
EmptyObj == Obj(<<>>)

\* ToBoolean, as applied by !x, x || y and x ? y : z
Truthy(v) ==
  CASE v.t \in {"undefined", "null"} -> FALSE
    [] v.t = "string" -> v.s # ""
    [] v.t = "number" -> v.n # 0
    [] v.t = "boolean" -> v.b
    [] OTHER -> TRUE

\* x || y
OrElse(x, y) == IF Truthy(x) THEN x ELSE y

\* Reading a property of undefined or null throws a TypeError.
Nullish(v) == v.t \in {"undefined", "null"}

\* v.k, for a v that is not nullish: undefined when v has no such property
Get(v, k) ==
  IF v.t = "object" /\ k \in DOMAIN v.props THEN v.props[k] ELSE Undef

\* ToString, as applied by a template literal `${v}`
ToStr(v) ==
  CASE v.t = "undefined" -> "undefined"
    [] v.t = "null" -> "null"
    [] v.t = "string" -> v.s
    [] v.t = "number" -> ToString(v.n)
    [] v.t = "boolean" -> (IF v.b THEN "true" ELSE "false")
    [] OTHER -> "[object Object]"

\* A destructuring default (const { x = d } = o): taken only when o.x is undefined
DestructureDefault(v, d) == IF v = Undef THEN d ELSE v

(***************************************************************************)
(* JSON.  A JSON document is modelled by its structure: JSON.stringify     *)
(* drops the properties whose value is undefined, turns an undefined array *)
(* element into null, and yields no document for undefined itself.         *)
(***************************************************************************)
NoDocument == [j |-> "none"]

RECURSIVE JSONStringify(_)
JSONStringify(v) ==
  CASE v.t = "undefined" -> NoDocument
    [] v.t = "null" -> [j |-> "null"]
    [] v.t = "string" -> [j |-> "string", s |-> v.s]
    [] v.t = "number" -> [j |-> "number", n |-> v.n]
    [] v.t = "boolean" -> [j |-> "boolean", b |-> v.b]
    [] v.t = "array" ->
         [j |-> "array",
          items |-> [i \in 1..Len(v.items) |->
                       IF v.items[i] = Undef THEN [j |-> "null"]
                       ELSE JSONStringify(v.items[i])]]
    [] v.t = "object" ->
         [j |-> "object",
          members |-> [k \in {x \in DOMAIN v.props : v.props[x] # Undef} |->
                         JSONStringify(v.props[k])]]

\* member k of a JSON object document, NoDocument when it has none
Member(d, k) ==
  IF d.j = "object" /\ k \in DOMAIN d.members THEN d.members[k] ELSE NoDocument

\* The response bodies the provider is taken to answer with.
TextToken1 == "{\"access_token\":\"A21-ONE\",\"expires_in\":32400}"

TextToken2 == "{\"access_token\":\"A21-TWO\",\"expires_in\":32400}"

TextNoToken == "{\"scope\":\"openid\"}"

TextEmpty == ""

TextNull == "null"

TextHtml == "<html>Bad Gateway</html>"

TextOAuthError == "{\"error\":\"invalid_client\"}"

TextApiError == "{\"name\":\"VALIDATION_ERROR\"}"

TextEC1 == "{\"token_id\":\"EC-1\",\"links\":[{\"rel\":\"approval_url\",\"href\":\"https://provider/approve?id=EC-1\"}]}"

TextTwoApprovals == "{\"id\":\"BA-2\",\"links\":[{\"rel\":\"self\",\"href\":\"https://provider/self\"},{\"rel\":\"approval_url\",\"href\":\"https://provider/first\"},{\"rel\":\"approval_url\",\"href\":\"https://provider/second\"}]}"

TextNoApproval == "{\"token_id\":\"EC-3\",\"links\":[{\"rel\":\"self\",\"href\":\"https://provider/self\"}]}"

TextEmptyLinks == "{\"token_id\":\"EC-4\",\"links\":[]}"

TextNullLink == "{\"token_id\":\"EC-5\",\"links\":[null]}"

TextAgreement == "{\"id\":\"B-7\",\"state\":\"ACTIVE\"}"

TextOrder == "{\"id\":\"ORDER-9\",\"status\":\"CREATED\"}"

Link(rel, href) == Obj([rel |-> Str(rel), href |-> Str(href)])

\* JSON.parse on the texts above: the parsed value, or a SyntaxError
JSONParse(text) ==
  CASE text = TextToken1 ->
         [threw |-> FALSE, value |-> Obj([access_token |-> Str("A21-ONE"), expires_in |-> Num(32400)])]
    [] text = TextToken2 ->
         [threw |-> FALSE, value |-> Obj([access_token |-> Str("A21-TWO"), expires_in |-> Num(32400)])]
    [] text = TextNoToken ->
         [threw |-> FALSE, value |-> Obj([scope |-> Str("openid")])]
    [] text = TextNull -> [threw |-> FALSE, value |-> Null]
    [] text = TextOAuthError ->
         [threw |-> FALSE, value |-> Obj([error |-> Str("invalid_client")])]
    [] text = TextApiError ->
         [threw |-> FALSE, value |-> Obj([name |-> Str("VALIDATION_ERROR")])]
    [] text = TextEC1 ->
         [threw |-> FALSE,
          value |-> Obj([token_id |-> Str("EC-1"),
                         links |-> Arr(<<Link("approval_url", "https://provider/approve?id=EC-1")>>)])]
    [] text = TextTwoApprovals ->
         [threw |-> FALSE,
          value |-> Obj([id |-> Str("BA-2"),
                         links |-> Arr(<<Link("self", "https://provider/self"),
                                         Link("approval_url", "https://provider/first"),
                                         Link("approval_url", "https://provider/second")>>)])]
    [] text = TextNoApproval ->
         [threw |-> FALSE,
          value |-> Obj([token_id |-> Str("EC-3"),
                         links |-> Arr(<<Link("self", "https://provider/self")>>)])]
    [] text = TextEmptyLinks ->
         [threw |-> FALSE, value |-> Obj([token_id |-> Str("EC-4"), links |-> Arr(<<>>)])]
    [] text = TextNullLink ->
         [threw |-> FALSE, value |-> Obj([token_id |-> Str("EC-5"), links |-> Arr(<<Null>>)])]
    [] text = TextAgreement ->
         [threw |-> FALSE, value |-> Obj([id |-> Str("B-7"), state |-> Str("ACTIVE")])]
    [] text = TextOrder ->
         [threw |-> FALSE, value |-> Obj([id |-> Str("ORDER-9"), status |-> Str("CREATED")])]
    [] OTHER ->
         [threw |-> TRUE, value |-> "Unexpected token in JSON at position 0"]

(***************************************************************************)
(* Configuration read from the environment at startup.                     *)
(***************************************************************************)
BASE == "https://api-m.sandbox.paypal.com"

PAYPAL_CLIENT_ID == "client-id"

PAYPAL_CLIENT_SECRET == "client-secret"

\* Buffer.from(creds).toString("base64"), for the credentials above
Base64(creds) ==
  IF creds = "client-id:client-secret" THEN "Y2xpZW50LWlkOmNsaWVudC1zZWNyZXQ="
  ELSE "base64(" \o creds \o ")"

(***************************************************************************)
(* A settled fetch: a response with a status and a body text, or a         *)
(* rejection (the connection failed).                                      *)
(***************************************************************************)
Response(status, text) == [kind |-> "response", status |-> status, text |-> text]

Rejected == [kind |-> "reject", status |-> 0, text |-> ""]

\* r.ok
Ok(fr) == fr.status >= 200 /\ fr.status <= 299

Threw(message) == [threw |-> TRUE, value |-> message]

Returned(v) == [threw |-> FALSE, value |-> v]

(***************************************************************************)
(* getAccessToken                                                          *)
(***************************************************************************)
\* the fetch getAccessToken issues
OAuthFetch ==
  [url |-> BASE \o "/v1/oauth2/token",
   method |-> "POST",
   authorization |-> "Basic " \o Base64(PAYPAL_CLIENT_ID \o ":" \o PAYPAL_CLIENT_SECRET),
   contentType |-> "application/x-www-form-urlencoded",
   body |-> [j |-> "form", s |-> "grant_type=client_credentials"]]

OAuthErrorMessageNoBody(status, text) == "OAuth failed: " \o ToString(status)

OAuthErrorMessage(status, text) ==
  "OAuth failed: " \o ToString(status) \o " " \o text

OAuthNeverThrows(fr) == FALSE

\* if (!r.ok) throw ...
OAuthNotOk(fr) == ~Ok(fr)

\* what getAccessToken does once its fetch has settled with fr
GetAccessToken(fr) ==
  IF fr.kind = "reject" THEN Threw("fetch failed")
  ELSE IF OAuthNotOk(fr) THEN Threw(OAuthErrorMessage(fr.status, fr.text))
  ELSE LET j == JSONParse(fr.text) IN
       IF j.threw THEN j
       ELSE IF Nullish(j.value)
         THEN Threw("Cannot read properties of null (reading 'access_token')")
       ELSE Returned(Get(j.value, "access_token"))

(***************************************************************************)
(* pp                                                                      *)
(***************************************************************************)
\* the fetch pp issues once it holds the token
ApiFetch(token, method, path, body) ==
  [url |-> BASE \o path,
   method |-> method,
   authorization |-> "Bearer " \o ToStr(token),
   contentType |-> "application/json",
   body |-> IF Truthy(body) THEN JSONStringify(body) ELSE NoDocument]

PpErrorMessageNoPath(method, path, status, text) ==
  "PayPal " \o method \o " " \o ToString(status) \o ": " \o text

PpErrorMessage(method, path, status, text) ==
  "PayPal " \o method \o " " \o path \o " " \o ToString(status) \o ": " \o text

\* what pp does once its fetch has settled with fr
Pp(method, path, fr) ==
  IF fr.kind = "reject" THEN Threw("fetch failed")
  ELSE IF ~Ok(fr) THEN Threw(PpErrorMessage(method, path, fr.status, fr.text))
  ELSE IF fr.text # "" THEN JSONParse(fr.text)
  ELSE Returned(EmptyObj)

(***************************************************************************)
(* The handlers' own computations.                                         *)
(***************************************************************************)
\* req.headers[name]
Header(rq, name) ==
  IF name \in DOMAIN rq.headers THEN Str(rq.headers[name]) ELSE Undef

ProtoIgnoringHeader(rq) == OrElse(Str(rq.protocol), Str("https"))

\* req.headers["x-forwarded-proto"] || req.protocol || "https"
Proto(rq) ==
  OrElse(OrElse(Header(rq, "x-forwarded-proto"), Str(rq.protocol)), Str("https"))

BaseUrl(rq) == ToStr(Proto(rq)) \o "://" \o ToStr(Header(rq, "host"))

\* the payload create-token hands to pp
CreateTokenPayload(rq) ==
  LET returnUrl == OrElse(Get(rq.body, "returnUrl"),
                          Str(BaseUrl(rq) \o "/ba.html?approved=1"))
      cancelUrl == OrElse(Get(rq.body, "cancelUrl"),
                          Str(BaseUrl(rq) \o "/ba.html?canceled=1"))
  IN Obj([description |-> Str("Consent for future charges (BA)"),
          payer |-> Obj([payment_method |-> Str("PAYPAL")]),
          plan |-> Obj([type |-> Str("MERCHANT_INITIATED_BILLING"),
                        merchant_preferences |->
                          Obj([return_url |-> returnUrl,
                               cancel_url |-> cancelUrl])])])

\* the index of the last entry of links whose rel is "approval_url", 0 if none
FindLastApproval(items) ==
  LET hits == {i \in 1..Len(items) : Get(items[i], "rel") = Str("approval_url")}
  IN IF hits = {} THEN 0 ELSE CHOOSE i \in hits : \A k \in hits : k <= i

\* links.find((l) => l.rel === "approval_url"): the index of the first such
\* entry, 0 if there is none
FindApproval(items) ==
  LET hits == {i \in 1..Len(items) : Get(items[i], "rel") = Str("approval_url")}
  IN IF hits = {} THEN 0 ELSE CHOOSE i \in hits : \A k \in hits : i <= k

\* find reads l.rel of every entry up to the one it returns: a nullish entry
\* among them throws
FindThrows(items) ==
  LET nulls == {i \in 1..Len(items) : Nullish(items[i])}
      hit == FindApproval([i \in 1..Len(items) |->
                             IF Nullish(items[i]) THEN EmptyObj ELSE items[i]])
  IN \E i \in nulls : hit = 0 \/ i < hit

\* what create-token does with the value pp returned: the response it sends,
\* unless evaluating it throws
CreateTokenResponse(tokenRes) ==
  IF Nullish(tokenRes)
    THEN Threw("Cannot read properties of null (reading 'links')")
  ELSE LET links == OrElse(Get(tokenRes, "links"), Arr(<<>>)) IN
    IF links.t # "array" THEN Threw("(tokenRes.links || []).find is not a function")
    ELSE IF FindThrows(links.items)
      THEN Threw("Cannot read properties of null (reading 'rel')")
    ELSE LET i == FindApproval(links.items)
             approve == IF i = 0 THEN Undef ELSE links.items[i]
         IN Returned([status |-> 200,
                      body |-> Obj([id |-> OrElse(Get(tokenRes, "token_id"),
                                                  Get(tokenRes, "id")),
                                    approve_url |-> IF Nullish(approve) THEN Undef
                                                    ELSE Get(approve, "href"),
                                    raw |-> tokenRes])])

MissingOnlyIfUndefined(body, field) == Get(body, field) = Undef

\* if (!token_id) ..., if (!agreement_id) ...
Missing(body, field) == ~Truthy(Get(body, field))

\* the payload create-agreement hands to pp
CreateAgreementPayload(rq) == Obj([token_id |-> Get(rq.body, "token_id")])

\* what create-agreement does with the value pp returned
CreateAgreementResponse(agr) ==
  IF Nullish(agr) THEN Threw("Cannot read properties of null (reading 'id')")
  ELSE Returned([status |-> 200,
                 body |-> Obj([agreement_id |-> Get(agr, "id"),
                               state |-> Get(agr, "state"),
                               raw |-> agr])])

DefaultIfFalsy(v, d) == OrElse(v, d)

\* const { agreement_id, amount = "10.00", currency = "USD" } = req.body
Defaulted(v, d) == DestructureDefault(v, d)

\* the payload charge hands to pp
ChargePayload(rq) ==
  LET agreement_id == Get(rq.body, "agreement_id")
      amount == Defaulted(Get(rq.body, "amount"), Str("10.00"))
      currency == Defaulted(Get(rq.body, "currency"), Str("USD"))
  IN Obj([intent |-> Str("CAPTURE"),
          payment_source |->
            Obj([token |-> Obj([id |-> agreement_id,
                                type |-> Str("BILLING_AGREEMENT")])]),
          purchase_units |->
            Arr(<<Obj([amount |-> Obj([currency_code |-> currency,
                                       value |-> amount])])>>)])

\* what charge does with the value pp returned: the argument of res.json is
\* { order_id: order.id, capture }, and capture is declared nowhere, so that
\* evaluating it throws a ReferenceError (a TypeError before it when order
\* is null)
ChargeResponse(order) ==
  IF Nullish(order) THEN Threw("Cannot read properties of null (reading 'id')")
  ELSE Threw("capture is not defined")

\* res.status(400).json({ error })
BadRequest(message) == [status |-> 400, body |-> Obj([error |-> Str(message)])]

\* catch (e) { res.status(500).json({ error: e.message }) }
Catch(message) == [status |-> 500, body |-> Obj([error |-> Str(message)])]

SendNothing(sent, response) == sent

\* res.json(...): one more response on the request's connection
Send(sent, response) == Append(sent, response)

(***************************************************************************)
(* State: one slot per request the server is handling.                     *)
(***************************************************************************)
VARIABLES
  pc,      \* where the request's handler stands: "idle", "getAccessToken"
           \* (awaiting the OAuth fetch), "pp" (awaiting the API fetch), "done"
  req,     \* the request: endpoint, body, headers, protocol
  ppArgs,  \* the arguments (method, path, body) of the handler's call of pp
  out,     \* the fetches the request has issued, in order
  inn,     \* the settled fetches the request has seen, in order
  res      \* the responses sent on the request's connection, in order

vars == <<pc, req, ppArgs, out, inn, res>>

NoReq == [endpoint |-> "none"]

NoArgs == [method |-> "none"]

Init ==
  /\ pc = [r \in Reqs |-> "idle"]
  /\ req = [r \in Reqs |-> NoReq]
  /\ ppArgs = [r \in Reqs |-> NoArgs]
  /\ out = [r \in Reqs |-> <<>>]
  /\ inn = [r \in Reqs |-> <<>>]
  /\ res = [r \in Reqs |-> <<>>]

(***************************************************************************)
(* The requests clients send and the answers the provider gives.           *)
(***************************************************************************)
\* the objects that have property k with a value of vals, or no property at all
Opt(k, vals) == {<<>>} \cup {(k :> v) : v \in vals}

Both(A, B) == {a @@ b : a \in A, b \in B}

\* One client at a time, with every shape of request and of provider answer.
Rich ==
  [exclusive |-> TRUE,
   tokenBodies |->
     {Obj(f) : f \in Both(Opt("returnUrl", {Str(""), Str("https://shop.example/thanks")}),
                          Opt("cancelUrl", {Str(""), Str("https://shop.example/cart")}))},
   headers |-> Both(Opt("x-forwarded-proto", {"", "https"}),
                    Opt("host", {"shop.example"})),
   protocols |-> {"http", "https"},
   agreementBodies |->
     {Obj(f) : f \in Opt("token_id", {Null, Str(""), Num(0), Bool(FALSE),
                                      Str("BA-TOKEN-1")})},
   chargeBodies |->
     {Obj(f) : f \in Both(Opt("agreement_id", {Str(""), Num(0), Str("B-1")}),
                          Both(Opt("amount", {Null, Str(""), Str("25.50")}),
                               Opt("currency", {Str(""), Str("EUR")})))},
   oauthResults |->
     {Response(200, t) : t \in {TextToken1, TextToken2, TextNoToken, TextHtml,
                                TextEmpty, TextNull}}
       \cup {Response(401, TextOAuthError), Response(503, TextHtml), Rejected},
   apiResults |->
     {Response(201, t) : t \in {TextEC1, TextTwoApprovals, TextNoApproval,
                                TextEmptyLinks, TextNullLink, TextAgreement,
                                TextOrder, TextNull, TextHtml}}
       \cup {Response(204, TextEmpty), Response(400, TextApiError),
             Response(500, TextEmpty), Rejected}]

\* Clients in parallel, with the requests and answers that tell them apart.
Small ==
  [exclusive |-> FALSE,
   tokenBodies |-> {EmptyObj},
   headers |-> {("host" :> "shop.example")},
   protocols |-> {"https"},
   agreementBodies |->
     {Obj(f) : f \in {("token_id" :> Str("BA-TOKEN-1")), ("token_id" :> Str("BA-TOKEN-2"))}},
   chargeBodies |-> {Obj(("agreement_id" :> Str("B-1")))},
   oauthResults |->
     {Response(200, TextToken1), Response(200, TextToken2),
      Response(401, TextOAuthError)},
   apiResults |->
     {Response(201, TextEC1), Response(201, TextAgreement),
      Response(400, TextApiError)}]

(***************************************************************************)
(* Actions.                                                                *)
(***************************************************************************)
\* the handler is entered for a request on slot r
Enter(r, U) ==
  /\ pc[r] = "idle"
  /\ U.exclusive => \A q \in Reqs \ {r} : pc[q] = "idle"

\* pp(method, path, body) is called: it calls getAccessToken, which issues
\* the OAuth fetch and awaits it
CallPp(r, rq, path, body) ==
  /\ req' = [req EXCEPT ![r] = rq]
  /\ ppArgs' = [ppArgs EXCEPT ![r] = [method |-> "POST", path |-> path, body |-> body]]
  /\ out' = [out EXCEPT ![r] = Append(@, OAuthFetch)]
  /\ pc' = [pc EXCEPT ![r] = "getAccessToken"]
  /\ UNCHANGED <<inn, res>>

\* the handler responds before any await
Respond(r, rq, response) ==
  /\ req' = [req EXCEPT ![r] = rq]
  /\ res' = [res EXCEPT ![r] = Send(@, response)]
  /\ pc' = [pc EXCEPT ![r] = "done"]
  /\ UNCHANGED <<ppArgs, out, inn>>

\* POST /api/ba/create-token, up to its first await
CreateTokenRequest(r, U) ==
  /\ Enter(r, U)
  /\ \E body \in U.tokenBodies, headers \in U.headers, protocol \in U.protocols :
       LET rq == [endpoint |-> "create-token", body |-> body,
                  headers |-> headers, protocol |-> protocol]
       IN CallPp(r, rq, "/v1/billing-agreements/agreement-tokens",
                 CreateTokenPayload(rq))

\* POST /api/ba/create-agreement, up to its first await
CreateAgreementRequest(r, U) ==
  /\ Enter(r, U)
  /\ \E body \in U.agreementBodies, headers \in U.headers, protocol \in U.protocols :
       LET rq == [endpoint |-> "create-agreement", body |-> body,
                  headers |-> headers, protocol |-> protocol]
       IN IF Missing(body, "token_id")
            THEN Respond(r, rq, BadRequest("token_id required"))
            ELSE CallPp(r, rq, "/v1/billing-agreements/agreements",
                        CreateAgreementPayload(rq))

\* POST /api/ba/charge, up to its first await
ChargeRequest(r, U) ==
  /\ Enter(r, U)
  /\ \E body \in U.chargeBodies, headers \in U.headers, protocol \in U.protocols :
       LET rq == [endpoint |-> "charge", body |-> body,
                  headers |-> headers, protocol |-> protocol]
       IN IF Missing(body, "agreement_id")
            THEN Respond(r, rq, BadRequest("agreement_id required"))
            ELSE CallPp(r, rq, "/v2/checkout/orders", ChargePayload(rq))

TokenOfAnyRequest(r, own) ==
  LET holders == {q \in Reqs \ {r} : pc[q] \in {"pp", "done"} /\ Len(out[q]) = 2}
  IN IF holders = {} THEN own
     ELSE GetAccessToken(inn[CHOOSE q \in holders : TRUE][1]).value

\* const token = await getAccessToken(): the token pp of request r uses is
\* the one its own call returned
TokenInPp(r, own) == own

\* the OAuth fetch of request r settles: getAccessToken throws, and the
\* handler's catch responds, or it returns the token and pp issues the API
\* fetch and awaits it
AccessTokenSettles(r, U) ==
  /\ pc[r] = "getAccessToken"
  /\ \E fr \in U.oauthResults :
       LET g == GetAccessToken(fr) IN
       /\ inn' = [inn EXCEPT ![r] = Append(@, fr)]
       /\ IF g.threw
            THEN /\ res' = [res EXCEPT ![r] = Send(@, Catch(g.value))]
                 /\ pc' = [pc EXCEPT ![r] = "done"]
                 /\ UNCHANGED out
            ELSE /\ out' = [out EXCEPT ![r] =
                              Append(@, ApiFetch(TokenInPp(r, g.value),
                                                 ppArgs[r].method, ppArgs[r].path,
                                                 ppArgs[r].body))]
                 /\ pc' = [pc EXCEPT ![r] = "pp"]
                 /\ UNCHANGED res
  /\ UNCHANGED <<req, ppArgs>>

\* the API fetch of request r settles with fr and the handler runs to its
\* end: respond(v) is what it does with the value pp returns
HandlerEnds(r, fr, h) ==
  /\ inn' = [inn EXCEPT ![r] = Append(@, fr)]
  /\ res' = [res EXCEPT ![r] =
               Send(@, IF h.threw THEN Catch(h.value) ELSE h.value)]
  /\ pc' = [pc EXCEPT ![r] = "done"]
  /\ UNCHANGED <<req, ppArgs, out>>

\* create-token, from the return of pp to the end
CreateTokenSettles(r, U) ==
  /\ pc[r] = "pp"
  /\ req[r].endpoint = "create-token"
  /\ \E fr \in U.apiResults :
       LET p == Pp(ppArgs[r].method, ppArgs[r].path, fr)
       IN HandlerEnds(r, fr, IF p.threw THEN p ELSE CreateTokenResponse(p.value))

\* create-agreement, from the return of pp to the end
CreateAgreementSettles(r, U) ==
  /\ pc[r] = "pp"
  /\ req[r].endpoint = "create-agreement"
  /\ \E fr \in U.apiResults :
       LET p == Pp(ppArgs[r].method, ppArgs[r].path, fr)
       IN HandlerEnds(r, fr, IF p.threw THEN p ELSE CreateAgreementResponse(p.value))

\* charge, from the return of pp to the end
ChargeSettles(r, U) ==
  /\ pc[r] = "pp"
  /\ req[r].endpoint = "charge"
  /\ \E fr \in U.apiResults :
       LET p == Pp(ppArgs[r].method, ppArgs[r].path, fr)
       IN HandlerEnds(r, fr, IF p.threw THEN p ELSE ChargeResponse(p.value))

\* the response is out and the connection closed: nothing of the request is
\* kept, and the slot takes the next one
Finish(r) ==
  /\ pc[r] = "done"
  /\ pc' = [pc EXCEPT ![r] = "idle"]
  /\ req' = [req EXCEPT ![r] = NoReq]
  /\ ppArgs' = [ppArgs EXCEPT ![r] = NoArgs]
  /\ out' = [out EXCEPT ![r] = <<>>]
  /\ inn' = [inn EXCEPT ![r] = <<>>]
  /\ res' = [res EXCEPT ![r] = <<>>]

Next ==
  \E r \in Reqs :
    \/ CreateTokenRequest(r, Rich)
    \/ CreateAgreementRequest(r, Rich)
    \/ ChargeRequest(r, Rich)
    \/ AccessTokenSettles(r, Rich)
    \/ CreateTokenSettles(r, Rich)
    \/ CreateAgreementSettles(r, Rich)
    \/ ChargeSettles(r, Rich)
    \/ Finish(r)

Spec == Init /\ [][Next]_vars

\* every fetch a request has issued settles, and the handler's continuation runs
Settles(r) ==
  \/ AccessTokenSettles(r, Rich)
  \/ CreateTokenSettles(r, Rich)
  \/ CreateAgreementSettles(r, Rich)
  \/ ChargeSettles(r, Rich)

FairSpec == Spec /\ \A r \in Reqs : WF_vars(Settles(r))

NextConc ==
  \E r \in Reqs :
    \/ CreateTokenRequest(r, Small)
    \/ CreateAgreementRequest(r, Small)
    \/ ChargeRequest(r, Small)
    \/ AccessTokenSettles(r, Small)
    \/ CreateTokenSettles(r, Small)
    \/ CreateAgreementSettles(r, Small)
    \/ ChargeSettles(r, Small)

SpecConc == Init /\ [][NextConc]_vars

(***************************************************************************)
(* Vocabulary of the properties.                                           *)
(***************************************************************************)
FalsyValues == {Undef, Null, Str(""), Num(0), Bool(FALSE)}

Success(fr) == fr.kind = "response" /\ fr.status \in 200..299

Failure(fr) == fr.kind = "response" /\ fr.status \notin 200..299

IsOAuthFetch(c) == c.url = BASE \o "/v1/oauth2/token"

PathOf(endpoint) ==
  CASE endpoint = "create-token" -> "/v1/billing-agreements/agreement-tokens"
    [] endpoint = "create-agreement" -> "/v1/billing-agreements/agreements"
    [] endpoint = "charge" -> "/v2/checkout/orders"

Prefixes == {"", "OAuth failed: ", "PayPal "}

Separators == {" ", ": "}

\* the one response of request r is an error with this status and message
ErrorResponse(r, status, message) ==
  /\ Len(res[r]) = 1
  /\ res[r][1].status = status
  /\ Get(res[r][1].body, "error") = Str(message)

JStr(s) == [j |-> "string", s |-> s]

\* C1: a create-agreement request without a truthy token_id, and a charge
\* request without a truthy agreement_id, is answered 400 with an error body
\* and issues no fetch at all, neither the OAuth one nor the API one.
C1_MissingIdentifierRejected ==
  \A r \in Reqs :
    (\/ /\ req[r].endpoint = "create-agreement"
        /\ Get(req[r].body, "token_id") \in FalsyValues
     \/ /\ req[r].endpoint = "charge"
        /\ Get(req[r].body, "agreement_id") \in FalsyValues)
    => /\ pc[r] = "done"
       /\ Len(res[r]) = 1
       /\ res[r][1].status = 400
       /\ Get(res[r][1].body, "error").t = "string"
       /\ out[r] = <<>>
       /\ inn[r] = <<>>

C1_Witness ==
  \E r \in Reqs :
    /\ req[r].endpoint = "charge"
    /\ Get(req[r].body, "agreement_id") = Num(0)
    /\ Len(res[r]) = 1
    /\ res[r][1].status = 400

\* C2: when the OAuth token endpoint answers a non-success status, each of
\* create-token, create-agreement and charge answers 500 with a JSON error
\* message that holds the upstream status code and the upstream body.
C2_OAuthFailureIs500 ==
  \A r \in Reqs :
    (Len(inn[r]) >= 1 /\ Failure(inn[r][1]))
    => \E pre \in Prefixes, mid \in Separators :
         ErrorResponse(r, 500,
                       pre \o ToString(inn[r][1].status) \o mid \o inn[r][1].text)

C2_Witness ==
  \E r \in Reqs :
    /\ req[r].endpoint = "charge"
    /\ Len(inn[r]) = 1
    /\ inn[r][1] = Response(401, TextOAuthError)
    /\ Len(res[r]) = 1
    /\ res[r][1].status = 500

\* the value pp returned to the handler of r, from the text the provider sent
ProviderValue(r) ==
  IF inn[r][2].text = "" THEN EmptyObj ELSE JSONParse(inn[r][2].text).value

\* C3: a charge request with an agreement_id whose token acquisition and
\* order creation both succeed is answered 200 with {order_id, capture},
\* order_id being the id of the order the provider created.
C3_ChargeSuccessIs200 ==
  \A r \in Reqs :
    (/\ req[r].endpoint = "charge"
     /\ Len(inn[r]) = 2
     /\ Success(inn[r][1]) /\ Len(out[r]) = 2
     /\ Success(inn[r][2]) /\ ProviderValue(r).t = "object")
    => /\ Len(res[r]) = 1
       /\ res[r][1].status = 200
       /\ Get(res[r][1].body, "order_id") = Get(ProviderValue(r), "id")

LinksOf(v) ==
  IF Get(v, "links").t = "array" THEN Get(v, "links").items ELSE <<>>

\* C4: in a successful create-token response, approve_url is the href of the
\* first entry of the provider's links whose rel is "approval_url", and is
\* undefined when links is absent, empty or holds no such entry.
C4_ApproveUrlIsFirstApprovalLink ==
  \A r \in Reqs :
    (/\ req[r].endpoint = "create-token"
     /\ pc[r] = "done"
     /\ res[r][1].status = 200)
    => LET links == LinksOf(ProviderValue(r))
           approve_url == Get(res[r][1].body, "approve_url")
           IsApproval(i) == Get(links[i], "rel") = Str("approval_url")
       IN \/ \E i \in 1..Len(links) :
               /\ IsApproval(i)
               /\ \A k \in 1..(i - 1) : ~IsApproval(k)
               /\ approve_url = Get(links[i], "href")
          \/ /\ \A i \in 1..Len(links) : ~IsApproval(i)
             /\ approve_url = Undef

C4_Witness ==
  \E r \in Reqs :
    /\ req[r].endpoint = "create-token"
    /\ pc[r] = "done"
    /\ Len(inn[r]) = 2
    /\ inn[r][2].text = TextTwoApprovals
    /\ res[r][1].status = 200
    /\ Get(res[r][1].body, "approve_url") = Str("https://provider/first")

\* what create-token submitted for request r: the merchant_preferences member
\* of the JSON document of its API fetch
SentPreferences(r) ==
  Member(Member(out[r][2].body, "plan"), "merchant_preferences")

SentCreateToken(r) ==
  /\ req[r].endpoint = "create-token"
  /\ Len(out[r]) = 2
  /\ "host" \in DOMAIN req[r].headers

\* the URL submitted as `sent` for the body's field, the default being built
\* on scheme and marked by marker
UrlRule(r, field, sent, scheme, marker) ==
  LET given == Get(req[r].body, field) IN
  /\ field \notin DOMAIN req[r].body.props
       => sent = JStr(scheme \o "://" \o req[r].headers["host"]
                        \o "/ba.html?" \o marker \o "=1")
  /\ (given.t = "string" /\ given.s # "") => sent = JStr(given.s)

\* C5, as stated: the scheme of a defaulted URL is the x-forwarded-proto
\* header whenever the request carries that header, and the request's own
\* protocol otherwise.
C5_SchemeIsHeaderWhenPresent ==
  \A r \in Reqs :
    SentCreateToken(r)
    => LET scheme == IF "x-forwarded-proto" \in DOMAIN req[r].headers
                       THEN req[r].headers["x-forwarded-proto"]
                       ELSE req[r].protocol
       IN /\ UrlRule(r, "returnUrl", Member(SentPreferences(r), "return_url"),
                     scheme, "approved")
          /\ UrlRule(r, "cancelUrl", Member(SentPreferences(r), "cancel_url"),
                     scheme, "canceled")

\* C5, amended: an omitted returnUrl (cancelUrl) is submitted as
\* {scheme}://{host}/ba.html?approved=1 (?canceled=1), host being the Host
\* header and scheme the x-forwarded-proto header when that header is present
\* and not empty, and the request's own protocol otherwise; a URL the body
\* supplies is submitted unchanged; the two are defaulted independently.
C5_SchemeIsHeaderWhenNotEmpty ==
  \A r \in Reqs :
    SentCreateToken(r)
    => LET scheme == IF /\ "x-forwarded-proto" \in DOMAIN req[r].headers
                        /\ req[r].headers["x-forwarded-proto"] # ""
                       THEN req[r].headers["x-forwarded-proto"]
                       ELSE req[r].protocol
       IN /\ UrlRule(r, "returnUrl", Member(SentPreferences(r), "return_url"),
                     scheme, "approved")
          /\ UrlRule(r, "cancelUrl", Member(SentPreferences(r), "cancel_url"),
                     scheme, "canceled")

C5_Witness ==
  \E r \in Reqs :
    /\ SentCreateToken(r)
    /\ "x-forwarded-proto" \in DOMAIN req[r].headers
    /\ req[r].headers["x-forwarded-proto"] = "https"
    /\ req[r].protocol = "http"
    /\ DOMAIN req[r].body.props = {"cancelUrl"}
    /\ Get(req[r].body, "cancelUrl") = Str("https://shop.example/cart")
    /\ Member(SentPreferences(r), "return_url")
         = JStr("https://shop.example/ba.html?approved=1")
    /\ Member(SentPreferences(r), "cancel_url") = JStr("https://shop.example/cart")

\* what charge submitted for request r: the JSON document of its API fetch
SentOrder(r) == out[r][2].body

SentAmount(r) == Member(Member(SentOrder(r), "purchase_units").items[1], "amount")

\* C6: the order charge submits has currency_code "USD" when the body has no
\* currency and value "10.00" when it has no amount, each on its own; an
\* amount or currency the body has is submitted as given; the payment source
\* is the body's agreement_id with type BILLING_AGREEMENT, the intent CAPTURE.
C6_ChargePayload ==
  \A r \in Reqs :
    (req[r].endpoint = "charge" /\ Len(out[r]) = 2)
    => LET props == req[r].body.props
           token == Member(Member(SentOrder(r), "payment_source"), "token")
       IN /\ Member(SentOrder(r), "intent") = JStr("CAPTURE")
          /\ Member(token, "id") = JSONStringify(props["agreement_id"])
          /\ Member(token, "type") = JStr("BILLING_AGREEMENT")
          /\ DOMAIN token.members = {"id", "type"}
          /\ Len(Member(SentOrder(r), "purchase_units").items) = 1
          /\ Member(SentAmount(r), "currency_code")
               = IF "currency" \in DOMAIN props
                   THEN JSONStringify(props["currency"]) ELSE JStr("USD")
          /\ Member(SentAmount(r), "value")
               = IF "amount" \in DOMAIN props
                   THEN JSONStringify(props["amount"]) ELSE JStr("10.00")

C6_Witness ==
  \E r \in Reqs :
    /\ req[r].endpoint = "charge"
    /\ Len(out[r]) = 2
    /\ DOMAIN req[r].body.props = {"agreement_id", "currency"}
    /\ Member(SentAmount(r), "currency_code") = JStr("EUR")
    /\ Member(SentAmount(r), "value") = JStr("10.00")

\* C7: when the token was acquired and the provider's API call answers a
\* non-success status, each endpoint answers 500 with a JSON error message
\* that holds the method, the provider path, the upstream status and the raw
\* upstream body of the failed call.
C7_ApiFailureIs500 ==
  \A r \in Reqs :
    (Len(inn[r]) = 2 /\ Failure(inn[r][2]))
    => \E pre \in Prefixes, a \in Separators, b \in Separators, c \in Separators :
         ErrorResponse(r, 500,
                       pre \o out[r][2].method \o a \o PathOf(req[r].endpoint)
                         \o b \o ToString(inn[r][2].status) \o c \o inn[r][2].text)

C7_Witness ==
  \E r \in Reqs :
    /\ req[r].endpoint = "create-agreement"
    /\ Len(inn[r]) = 2
    /\ inn[r][2] = Response(400, TextApiError)
    /\ Len(res[r]) = 1
    /\ res[r][1].status = 500

\* C8: the fetches a request causes are a prefix of <<OAuth fetch, API
\* fetch>>: the API fetch is issued only once the request's own OAuth fetch
\* has answered with success, never after it failed, and no fetch is issued
\* twice, so that a request causes at most two.
C8_FetchesArePrefixOfTokenThenApi ==
  \A r \in Reqs :
    /\ Len(out[r]) <= 2
    /\ Len(out[r]) >= 1 => IsOAuthFetch(out[r][1])
    /\ Len(out[r]) = 2
         => /\ ~IsOAuthFetch(out[r][2])
            /\ out[r][2].url = BASE \o PathOf(req[r].endpoint)
            /\ Len(inn[r]) >= 1
            /\ Success(inn[r][1])
    /\ Len(inn[r]) <= Len(out[r])
    /\ (Len(inn[r]) >= 1 /\ ~Success(inn[r][1])) => Len(out[r]) = 1

C8_Witness ==
  \E r \in Reqs :
    /\ pc[r] = "done"
    /\ Len(out[r]) = 2
    /\ Len(inn[r]) = 2
    /\ Failure(inn[r][2])

\* C9: under every interleaving of requests, the bearer token of a request's
\* API fetch is the access_token its own OAuth fetch returned, and what a
\* request submits and answers is determined by its own request and its own
\* two provider answers: two requests that agree on these agree on their
\* fetches and on their response, whatever the others do.
C9_RequestsAreIsolated ==
  /\ \A r \in Reqs :
       Len(out[r]) = 2
       => out[r][2].authorization
            = "Bearer " \o ToStr(Get(JSONParse(inn[r][1].text).value, "access_token"))
  /\ \A r1 \in Reqs, r2 \in Reqs :
       (/\ pc[r1] = "done" /\ pc[r2] = "done"
        /\ req[r1] = req[r2]
        /\ inn[r1] = inn[r2])
       => (res[r1] = res[r2] /\ out[r1] = out[r2])

C9_Witness ==
  \E r1 \in Reqs, r2 \in Reqs :
    /\ pc[r1] = "pp" /\ pc[r2] = "pp"
    /\ inn[r1][1].text = TextToken1
    /\ inn[r2][1].text = TextToken2
    /\ out[r1][2].authorization = "Bearer A21-ONE"
    /\ out[r2][2].authorization = "Bearer A21-TWO"

\* C10: a request to create-token, create-agreement or charge, every fetch
\* of which settles, is answered exactly once: never twice, and, once its
\* handler has run, not zero times; also when charge has created its order.
C10_ExactlyOneResponse ==
  /\ [](\A r \in Reqs : Len(res[r]) <= 1)
  /\ [](\A r \in Reqs : pc[r] = "done" => Len(res[r]) = 1)
  /\ \A r \in Reqs : (pc[r] # "idle") ~> (pc[r] = "done" /\ Len(res[r]) = 1)

C10_Witness ==
  \E r \in Reqs :
    /\ req[r].endpoint = "charge"
    /\ pc[r] = "done"
    /\ Len(inn[r]) = 2
    /\ Success(inn[r][1])
    /\ inn[r][2] = Response(201, TextOrder)
    /\ Len(res[r]) = 1
====
